---- MODULE Spec2Model ----
(***************************************************************************)
(* A model of the INV2 investment dashboard: the localStorage service      *)
(* (lib/services/storage.js), the input validation (lib/utils/             *)
(* validation.js), the usePortfolio hook (lib/hooks/usePortfolio.js) and   *)
(* the pure calculations (lib/utils/calculations.js).                      *)
(*                                                                         *)
(* JavaScript values are tagged records.  A finite number is a pair        *)
(* (u, f) standing for u + f/1000 with 0 <= f < 1000, so that rounding to  *)
(* cents is a real operation and the 10,000,000 ceiling keeps its value    *)
(* without leaving TLC's integers.  Arithmetic is exact (decimal), not     *)
(* IEEE-754 binary floating point.                                         *)
(***************************************************************************)
EXTENDS Integers, Sequences, FiniteSets, TLC

VARIABLES
    store,      \* localStorage: the three keys of STORAGE_KEYS, each a text
    available,  \* whether localStorage accepts the availability probe
    clock,      \* the wall clock read by new Date()
    portfolio,  \* usePortfolio: the current portfolio object
    loading,    \* usePortfolio: loading flag
    error,      \* usePortfolio: error message kind, or "none"
    lastSaved,  \* usePortfolio: clock value of the last successful save, or -1
    isInitialObject, \* usePortfolio: portfolio is the INITIAL_PORTFOLIO object itself
    timer,      \* usePortfolio: the pending debounced save (setTimeout)
    edits,      \* number of hook calls made so far (bounded)
    ret,        \* the last operation with its arguments and its return value
    calc        \* the pure-function harness: function, input and output

vars == <<store, available, clock, portfolio, loading, error, lastSaved,
          isInitialObject, timer, edits, ret, calc>>

-----------------------------------------------------------------------------
(* Bounds of the model *)

\* the clock advances at most this many times
MaxClock == 1
\* the hook's update/reset interface is called at most this many times
MaxEdits == 1
\* calculation inputs range over 0, 0.5, 1, ... MaxHalves/2
MaxHalves == 6

-----------------------------------------------------------------------------
(* JavaScript values *)

\* thousandths per unit in the (u, f) representation of a finite number
Mills == 10 * 100

Num(u, f) == [t |-> "number", u |-> u, f |-> f]
Whole(u) == Num(u, 0)
NaN == [t |-> "NaN"]
PosInf == [t |-> "Infinity"]
NegInf == [t |-> "-Infinity"]
Null == [t |-> "null"]
Undefined == [t |-> "undefined"]
Bool(b) == [t |-> "boolean", b |-> b]
\* a string is a sequence of one-character strings
Str(s) == [t |-> "string", s |-> s]
\* new Date(now).toISOString(): a string determined by the clock
ISOString(now) == [t |-> "string", iso |-> now]
\* an object is a function from its own keys to values
Obj(o) == [t |-> "object", o |-> o]
EmptyObj == Obj([k \in {} |-> Null])

IsFinite(v) == v.t = "number"
\* typeof v
TypeOf(v) ==
    CASE v.t \in {"number", "NaN", "Infinity", "-Infinity", "ratio"} -> "number"
      [] v.t = "null" -> "object"
      [] OTHER -> v.t

\* !v is false
Truthy(v) ==
    CASE v.t = "number" -> ~(v.u = 0 /\ v.f = 0)
      [] v.t \in {"NaN", "null", "undefined"} -> FALSE
      [] v.t = "boolean" -> v.b
      [] v.t = "string" -> IF "s" \in DOMAIN v THEN Len(v.s) > 0 ELSE TRUE
      [] OTHER -> TRUE

\* key in obj
HasKey(obj, k) == k \in DOMAIN obj.o
\* obj[k]: undefined when the key is absent
Get(obj, k) == IF k \in DOMAIN obj.o THEN obj.o[k] ELSE Undefined
\* { ...a, ...b } for objects a and b
Spread(a, b) == Obj(b.o @@ a.o)
\* { ...a, [k]: v }
With(a, k, v) == Obj((k :> v) @@ a.o)

(* exact arithmetic on finite numbers *)
NumLess(a, b) == a.u < b.u \/ (a.u = b.u /\ a.f < b.f)
NumAdd(a, b) ==
    IF a.f + b.f >= Mills THEN Num(a.u + b.u + 1, a.f + b.f - Mills)
    ELSE Num(a.u + b.u, a.f + b.f)
NumSub(a, b) ==
    IF a.f - b.f < 0 THEN Num(a.u - b.u - 1, a.f - b.f + Mills)
    ELSE Num(a.u - b.u, a.f - b.f)
\* k * a for an integer k >= 0
NumTimes(k, a) == Num(k * a.u + ((k * a.f) \div Mills), (k * a.f) % Mills)
Zero == Whole(0)

\* thrown errors and returned values
Throw(msg) == [ok |-> FALSE, msg |-> msg]
Return(v) == [ok |-> TRUE, v |-> v]

-----------------------------------------------------------------------------
(* lib/utils/validation.js *)

\* the characters kept by input.replace(/[^0-9.-]/g, '')
Digits == {"0", "1", "2", "3", "4", "5", "6", "7", "8", "9"}
NumericChars == Digits \cup {".", "-"}
IsNumericChar(c) == c \in NumericChars
DigitValue(c) ==
    CASE c = "0" -> 0 [] c = "1" -> 1 [] c = "2" -> 2 [] c = "3" -> 3
      [] c = "4" -> 4 [] c = "5" -> 5 [] c = "6" -> 6 [] c = "7" -> 7
      [] c = "8" -> 8 [] c = "9" -> 9

RECURSIVE DigitsValue(_)
\* the value of a sequence of decimal digits
DigitsValue(ds) ==
    IF ds = <<>> THEN 0
    ELSE 10 * DigitsValue(SubSeq(ds, 1, Len(ds) - 1)) + DigitValue(ds[Len(ds)])

\* Number(s) for a string s of digits, "." and "-" (what the cleaning leaves);
\* exact for up to three fractional digits
StringToNumber(s) ==
    LET neg == Len(s) > 0 /\ s[1] = "-"
        body == IF neg THEN Tail(s) ELSE s
        dots == {i \in 1..Len(body) : body[i] = "."}
        dot == IF dots = {} THEN Len(body) + 1 ELSE CHOOSE i \in dots : TRUE
        whole == SubSeq(body, 1, dot - 1)
        frac == SubSeq(body, dot + 1, Len(body))
        frac3 == SubSeq(frac \o <<"0", "0", "0">>, 1, 3)
        u == DigitsValue(whole)
        f == DigitsValue(frac3)
    IN  IF s = <<>> THEN Zero
        ELSE IF \/ Cardinality(dots) > 1
                \/ \E i \in 1..Len(body) : body[i] = "-"
                \/ Len(whole) + Len(frac) = 0
             THEN NaN
        ELSE IF ~neg THEN Num(u, f)
        ELSE IF f = 0 THEN Num(-u, 0)
        ELSE Num(-u - 1, Mills - f)

\* Number(cleanInput)
ToNumber(input) ==
    CASE input.t \in {"number", "NaN", "Infinity", "-Infinity"} -> input
      [] input.t = "boolean" -> IF input.b THEN Whole(1) ELSE Zero
      [] input.t = "string" ->
            IF "s" \in DOMAIN input
            THEN StringToNumber(SelectSeq(input.s, IsNumericChar))
            ELSE NaN    \* an ISO date keeps inner "-" characters
      [] input.t = "null" -> Zero
      [] OTHER -> NaN

\* the sanity ceiling of one bucket, in SGD
MAX_VALUE == 10000000

\* Math.round(number * 100) / 100 for number >= 0
RoundToCents(n) ==
    LET c == (n.f + 5) \div 10
    IN  IF c = 100 THEN Num(n.u + 1, 0) ELSE Num(n.u, c * 10)

IsEmptyInput(input) ==
    \/ input.t \in {"null", "undefined"}
    \/ (input.t = "string" /\ "s" \in DOMAIN input /\ input.s = <<>>)

\* validatePortfolioInput without the check against the ceiling
validatePortfolioInput_noCeiling(input) ==
    LET number == ToNumber(input)
    IN  IF IsEmptyInput(input) THEN Return(Zero)
        ELSE IF number.t = "NaN" THEN Throw("must be a valid number")
        ELSE IF number.t = "-Infinity" \/ (IsFinite(number) /\ number.u < 0)
             THEN Throw("cannot be negative")
        ELSE IF number.t = "Infinity" THEN Return(number)
        ELSE Return(RoundToCents(number))

validatePortfolioInput(input) ==
    LET number == ToNumber(input)
    IN  IF IsEmptyInput(input) THEN Return(Zero)
        ELSE IF number.t = "NaN" THEN Throw("must be a valid number")
        ELSE IF number.t = "-Infinity" \/ (IsFinite(number) /\ number.u < 0)
             THEN Throw("cannot be negative")
        ELSE IF number.t = "Infinity" \/ NumLess(Whole(MAX_VALUE), number)
             THEN Throw("seems unreasonably high")
        ELSE Return(RoundToCents(number))

requiredFields == <<"core", "growth", "crypto", "hedge">>
Buckets == {requiredFields[i] : i \in 1..4}

validatePortfolio(p) ==
    IF ~Truthy(p) \/ TypeOf(p) # "object"
    THEN Throw("Portfolio must be an object")
    ELSE
    LET check(field) ==
            IF ~HasKey(p, field) THEN Throw("Missing required field")
            ELSE validatePortfolioInput(Get(p, field))
        bad == {i \in 1..4 : ~check(requiredFields[i]).ok}
        firstBad == CHOOSE i \in bad : \A j \in bad : i <= j
        savings == validatePortfolioInput(Get(p, "savings"))
    IN  IF bad # {} THEN check(requiredFields[firstBad])
        ELSE IF HasKey(p, "savings") /\ ~savings.ok THEN savings
        ELSE Return(Obj([k \in DOMAIN p.o |->
                         IF k \in Buckets THEN check(k).v
                         ELSE IF k = "savings" THEN savings.v
                         ELSE p.o[k]]))

-----------------------------------------------------------------------------
(* JSON and localStorage texts *)

\* a stored text: no item, the empty string, a text JSON.parse rejects, or
\* the JSON text of a value
Absent == [k |-> "absent"]
EmptyText == [k |-> "empty"]
Garbage == [k |-> "garbage"]
Json(v) == [k |-> "json", v |-> v]

\* !text is false: getItem gave a non-empty string
TextTruthy(text) == text.k \notin {"absent", "empty"}

\* the value JSON.parse(JSON.stringify(v)) gives back: keys holding undefined
\* are dropped, NaN and the infinities become null (two levels of nesting)
JsonLeaf(v) == IF v.t \in {"NaN", "Infinity", "-Infinity"} THEN Null ELSE v
JsonInner(v) ==
    IF v.t = "object"
    THEN Obj([k \in {j \in DOMAIN v.o : v.o[j].t # "undefined"} |->
              JsonLeaf(v.o[k])])
    ELSE JsonLeaf(v)
JsonValue(v) ==
    IF v.t = "object"
    THEN Obj([k \in {j \in DOMAIN v.o : v.o[j].t # "undefined"} |->
              JsonInner(v.o[k])])
    ELSE JsonLeaf(v)
JSONstringify(v) == Json(JsonValue(v))
JSONparse(text) ==
    IF text.k = "json" THEN Return(text.v) ELSE Throw("Unexpected token")

-----------------------------------------------------------------------------
(* lib/services/storage.js *)

STORAGE_VERSION == Str(<<"2", ".", "0", ".", "0">>)
APP_NAME == Str(<<"I", "N", "V", "2", " ", "I", "n", "v", "e", "s", "t", "m", "e", "n", "t", " ", "C", "o", "m", "m", "a", "n", "d", " ", "C", "e", "n", "t", "e", "r">>)

EmptyStore == [PORTFOLIO |-> Absent, SETTINGS |-> Absent, BACKUP |-> Absent]

\* the result of a storage call: the store it leaves and what it returns
Outcome(st, v) == [store |-> st, val |-> v]

\* failAt numbers the setItem call of the operation that throws
\* (QuotaExceededError); 0 means every write succeeds
savePortfolio(st, avail, p, now, failAt) ==
    IF ~avail THEN Outcome(st, FALSE)
    ELSE IF ~Truthy(p) \/ TypeOf(p) # "object" THEN Outcome(st, FALSE)
    ELSE
    LET dataToSave == With(With(p, "lastUpdated", ISOString(now)),
                           "version", STORAGE_VERSION)
        st1 == [st EXCEPT !.PORTFOLIO = JSONstringify(dataToSave)]
        existing == st1.PORTFOLIO
        st2 == IF TextTruthy(existing)
               THEN [st1 EXCEPT !.BACKUP = existing] ELSE st1
    IN  IF failAt = 1 THEN Outcome(st, FALSE)
        ELSE IF failAt = 2 /\ TextTruthy(existing) THEN Outcome(st1, FALSE)
        ELSE Outcome(st2, TRUE)

restoreFromBackup(st, avail) ==
    LET backup == st.BACKUP
        parsed == JSONparse(backup)
    IN  IF ~avail THEN Null
        ELSE IF ~TextTruthy(backup) THEN Null
        ELSE IF ~parsed.ok THEN Null
        ELSE parsed.v

\* loadPortfolio restoring the backup also when the primary key is missing
loadPortfolio_restoresWhenMissing(st, avail) ==
    LET stored == st.PORTFOLIO
        parsed == JSONparse(stored)
        backup == restoreFromBackup(st, avail)
        fallback == IF Truthy(backup) THEN backup ELSE Null
    IN  IF ~avail THEN Null
        ELSE IF ~TextTruthy(stored) THEN fallback
        ELSE IF ~parsed.ok THEN fallback
        ELSE IF ~Truthy(parsed.v) \/ TypeOf(parsed.v) # "object" THEN fallback
        ELSE IF \E i \in 1..4 : ~HasKey(parsed.v, requiredFields[i])
             THEN fallback
        ELSE parsed.v

\* loadPortfolio without the check for the four required fields
loadPortfolio_noShapeCheck(st, avail) ==
    LET stored == st.PORTFOLIO
        parsed == JSONparse(stored)
        backup == restoreFromBackup(st, avail)
        fallback == IF Truthy(backup) THEN backup ELSE Null
    IN  IF ~avail THEN Null
        ELSE IF ~TextTruthy(stored) THEN Null
        ELSE IF ~parsed.ok THEN fallback
        ELSE IF ~Truthy(parsed.v) \/ TypeOf(parsed.v) # "object" THEN fallback
        ELSE parsed.v

loadPortfolio(st, avail) ==
    LET stored == st.PORTFOLIO
        parsed == JSONparse(stored)
        backup == restoreFromBackup(st, avail)
        fallback == IF Truthy(backup) THEN backup ELSE Null
    IN  IF ~avail THEN Null
        ELSE IF ~TextTruthy(stored) THEN Null
        ELSE IF ~parsed.ok THEN fallback
        ELSE IF ~Truthy(parsed.v) \/ TypeOf(parsed.v) # "object" THEN fallback
        ELSE IF \E i \in 1..4 : ~HasKey(parsed.v, requiredFields[i])
             THEN fallback
        ELSE parsed.v

\* { ...v }: the own keys of an object, nothing for null, undefined, numbers
SpreadOf(v) == IF v.t = "object" THEN v ELSE EmptyObj

saveSettings(st, avail, settings, now, failAt) ==
    LET dataToSave == With(With(SpreadOf(settings), "lastUpdated", ISOString(now)),
                           "version", STORAGE_VERSION)
    IN  IF ~avail THEN Outcome(st, FALSE)
        ELSE IF failAt = 1 THEN Outcome(st, FALSE)
        ELSE Outcome([st EXCEPT !.SETTINGS = JSONstringify(dataToSave)], TRUE)

getDefaultSettings ==
    Obj([currency |-> Str(<<"S", "G", "D">>), theme |-> Str(<<"d", "a", "r", "k">>),
         notifications |-> Bool(TRUE), autoSave |-> Bool(TRUE)])

loadSettings(st, avail) ==
    LET stored == st.SETTINGS
        parsed == JSONparse(stored)
    IN  IF ~avail THEN getDefaultSettings
        ELSE IF ~TextTruthy(stored) THEN getDefaultSettings
        ELSE IF ~parsed.ok THEN getDefaultSettings
        ELSE Spread(getDefaultSettings, SpreadOf(parsed.v))

\* the exported document as text
exportData(st, avail, now) ==
    JSONstringify(Obj([portfolio |-> loadPortfolio(st, avail),
                       settings |-> loadSettings(st, avail),
                       timestamp |-> ISOString(now),
                       version |-> STORAGE_VERSION,
                       app |-> APP_NAME]))

\* importData handing the whole document to savePortfolio
importData_savesDocument(st, avail, jsonData, now, failAt) ==
    LET data == JSONparse(jsonData)
        saved == savePortfolio(st, avail, data.v, now,
                               IF failAt \in {1, 2} THEN failAt ELSE 0)
    IN  IF ~data.ok THEN Outcome(st, FALSE)
        ELSE IF ~Truthy(data.v) \/ TypeOf(data.v) # "object"
             THEN Outcome(st, FALSE)
        ELSE saved

\* failAt 1 and 2 are the two writes of savePortfolio, 3 is saveSettings'
importData(st, avail, jsonData, now, failAt) ==
    LET data == JSONparse(jsonData)
        hasPortfolio == Truthy(Get(data.v, "portfolio"))
        saved == savePortfolio(st, avail, Get(data.v, "portfolio"), now,
                               IF failAt \in {1, 2} THEN failAt ELSE 0)
        st1 == IF hasPortfolio THEN saved.store ELSE st
        settingsSaved == saveSettings(st1, avail, Get(data.v, "settings"), now,
                                      IF failAt = 3 THEN 1 ELSE 0)
    IN  IF ~data.ok THEN Outcome(st, FALSE)
        ELSE IF ~Truthy(data.v) \/ TypeOf(data.v) # "object"
             THEN Outcome(st, FALSE)
        ELSE IF hasPortfolio /\ ~saved.val THEN Outcome(saved.store, FALSE)
        ELSE IF Truthy(Get(data.v, "settings"))
             THEN Outcome(settingsSaved.store, TRUE)
        ELSE Outcome(st1, TRUE)

clearAllData(st, avail) ==
    IF ~avail THEN Outcome(st, FALSE) ELSE Outcome(EmptyStore, TRUE)

-----------------------------------------------------------------------------
(* lib/data/portfolioData.js *)

\* lastUpdated is read from the clock when the module is loaded (time 0)
INITIAL_PORTFOLIO ==
    Obj([core |-> Whole(105356), growth |-> Whole(100441),
         crypto |-> Whole(101000), hedge |-> Whole(170050),
         savings |-> Whole(7000), currency |-> Str(<<"S", "G", "D">>),
         lastUpdated |-> ISOString(0), version |-> STORAGE_VERSION])

\* a portfolio object with the four buckets given
Pf(core, growth, crypto, hedge) ==
    Obj([core |-> core, growth |-> growth, crypto |-> crypto, hedge |-> hedge])

-----------------------------------------------------------------------------
(* lib/utils/calculations.js *)

\* the quotient num / den of two finite numbers, den # 0, kept exact
Ratio(num, den) == [t |-> "ratio", num |-> num, den |-> den]

\* typeof value !== 'number' || isNaN(value)
NotANumber(value) == TypeOf(value) # "number" \/ value.t = "NaN"

\* const { core = 0, ... } = portfolio: the default stands in for undefined
Defaulted(p, field) ==
    IF Get(p, field).t = "undefined" THEN Zero ELSE Get(p, field)

\* a + b for numbers that may be infinite
Plus(a, b) ==
    IF a.t = "NaN" \/ b.t = "NaN" THEN NaN
    ELSE IF a.t = "number" /\ b.t = "number" THEN NumAdd(a, b)
    ELSE IF a.t = "number" THEN b
    ELSE IF b.t = "number" THEN a
    ELSE IF a.t = b.t THEN a
    ELSE NaN

\* calculatePortfolioTotal without the isNaN test
calculatePortfolioTotal_noNaNCheck(p) ==
    LET value(i) == Defaulted(p, requiredFields[i])
    IN  IF ~Truthy(p) \/ TypeOf(p) # "object"
        THEN Throw("Portfolio must be a valid object")
        ELSE IF \E i \in 1..4 : TypeOf(value(i)) # "number"
        THEN Throw("Invalid value")
        ELSE Return(Plus(Plus(Plus(value(1), value(2)), value(3)), value(4)))

calculatePortfolioTotal(p) ==
    LET value(i) == Defaulted(p, requiredFields[i])
    IN  IF ~Truthy(p) \/ TypeOf(p) # "object"
        THEN Throw("Portfolio must be a valid object")
        ELSE IF \E i \in 1..4 : NotANumber(value(i))
        THEN Throw("Invalid value")
        ELSE Return(Plus(Plus(Plus(value(1), value(2)), value(3)), value(4)))

\* (bucket / total) * 100 for a total other than 0; a bucket without a
\* value and Infinity / Infinity give NaN
Percentage(bucket, total) ==
    IF bucket.t = "number" /\ total.t = "number"
    THEN Ratio(NumTimes(100, bucket), total)
    ELSE IF bucket.t = "number" /\ total.t \in {"Infinity", "-Infinity"}
    THEN Zero
    ELSE NaN

\* calculateAllocations without the guard for a zero total
calculateAllocations_noZeroGuard(p) ==
    LET total == calculatePortfolioTotal(p)
    IN  IF ~total.ok THEN total
        ELSE Return(Obj([b \in Buckets |->
                         IF total.v = Zero THEN NaN
                         ELSE Percentage(Get(p, b), total.v)]))

calculateAllocations(p) ==
    LET total == calculatePortfolioTotal(p)
    IN  IF ~total.ok THEN total
        ELSE IF total.v = Zero THEN Return(Pf(Zero, Zero, Zero, Zero))
        ELSE Return(Obj([b \in Buckets |-> Percentage(Get(p, b), total.v)]))

\* value <= 0 in JavaScript: null counts as 0, NaN compares false
NotPositive(value) ==
    \/ value.t \in {"null", "-Infinity"}
    \/ (value.t = "number" /\ ~NumLess(Zero, value))

\* (currentValue * 0.04) / 12
MonthlyPassive(currentValue) ==
    IF currentValue.t = "number"
    THEN Ratio(NumTimes(4, currentValue), Whole(1200))
    ELSE currentValue

\* the results of calculateFIProgress for a finite currentValue and a
\* finite targetValue > 0; percentage is computed by the caller
FIProgressOf(percentage, currentValue, targetValue) ==
    LET remaining == NumSub(targetValue, currentValue)
    IN  [percentage |-> percentage,
         remaining |-> IF NumLess(Zero, remaining) THEN remaining ELSE Zero,
         monthlyPassive |-> MonthlyPassive(currentValue),
         yearsToTarget |->
             IF ~NumLess(Zero, remaining) THEN Zero
             ELSE IF currentValue = Zero THEN PosInf
             ELSE Ratio(NumTimes(100, remaining), NumTimes(7, currentValue))]

\* calculateFIProgress returning the progress without the cap at 100
calculateFIProgress_noCap(currentValue, targetValue) ==
    IF NotPositive(targetValue)
    THEN Throw("Target value must be positive")
    ELSE IF currentValue.t = "number" /\ targetValue.t = "number"
    THEN Return(FIProgressOf(Ratio(NumTimes(100, currentValue), targetValue),
                             currentValue, targetValue))
    ELSE IF currentValue.t = "Infinity" /\ targetValue.t = "number"
    THEN Return([percentage |-> PosInf, remaining |-> Zero,
                 monthlyPassive |-> PosInf, yearsToTarget |-> Zero])
    ELSE Return([percentage |-> NaN, remaining |-> NaN,
                 monthlyPassive |-> MonthlyPassive(currentValue),
                 yearsToTarget |-> Zero])

calculateFIProgress(currentValue, targetValue) ==
    IF NotPositive(targetValue)
    THEN Throw("Target value must be positive")
    ELSE IF currentValue.t = "number" /\ targetValue.t = "number"
    THEN LET progress == Ratio(NumTimes(100, currentValue), targetValue)
         IN  Return(FIProgressOf(
                 IF NumLess(NumTimes(100, targetValue), progress.num)
                 THEN Whole(100) ELSE progress,
                 currentValue, targetValue))
    ELSE IF currentValue.t = "Infinity" /\ targetValue.t = "number"
    THEN Return([percentage |-> Whole(100), remaining |-> Zero,
                 monthlyPassive |-> PosInf, yearsToTarget |-> Zero])
    ELSE \* NaN on either side: Math.min and Math.max give NaN
         Return([percentage |-> NaN, remaining |-> NaN,
                 monthlyPassive |-> MonthlyPassive(currentValue),
                 yearsToTarget |-> Zero])

\* a - b for numbers that may be NaN or infinite on the left
Minus(a, b) ==
    IF a.t = "number" /\ b.t = "number" THEN NumSub(a, b)
    ELSE IF b.t = "number" THEN a
    ELSE NaN

\* (num / den) * 100, kept as the exact quotient
PercentOf(num, den) ==
    IF num.t # "number" \/ den.t # "number" THEN
        IF num.t \in {"Infinity", "-Infinity"} /\ den.t = "number" THEN num
        ELSE NaN
    ELSE IF den # Zero THEN [t |-> "percent", num |-> num, den |-> den]
    ELSE IF num = Zero THEN NaN
    ELSE IF NumLess(Zero, num) THEN PosInf
    ELSE NegInf

\* (Math.pow(endValue / startValue, 1 / years) - 1) * 100 for positive
\* arguments, kept as the expression
GrowthRate(startValue, endValue, years) ==
    IF startValue.t = "number" /\ endValue.t = "number" /\ years.t = "number"
    THEN [t |-> "cagr", startValue |-> startValue, endValue |-> endValue,
          years |-> years]
    ELSE IF startValue.t = "number" /\ years.t = "number"
            /\ endValue.t = "Infinity"
    THEN PosInf
    ELSE NaN

\* calculateCAGR without the test of years
calculateCAGR_noYearsCheck(startValue, endValue, years) ==
    IF NotPositive(startValue) \/ NotPositive(endValue)
    THEN Throw("All values must be positive for CAGR calculation")
    ELSE IF years = Zero THEN Return(PosInf)
    ELSE Return(GrowthRate(startValue, endValue, years))

calculateCAGR(startValue, endValue, years) ==
    IF NotPositive(startValue) \/ NotPositive(endValue) \/ NotPositive(years)
    THEN Throw("All values must be positive for CAGR calculation")
    ELSE Return(GrowthRate(startValue, endValue, years))

\* a JavaScript array
Array(a) == [t |-> "array", a |-> a]

\* a series entry with the fields calculateRealMetrics reads
Entry(year, networth, totalSaved, annualSavings) ==
    [year |-> Whole(year), networth |-> Whole(networth),
     totalSaved |-> Whole(totalSaved), annualSavings |-> Whole(annualSavings)]

\* src/lib/data/historicalData.js: the bundled series, 2018 to 2025
HISTORICAL_DATA ==
    Array(<< Entry(2018, 21200, 20000, 20000),
             Entry(2019, 113547, 95303, 75303),
             Entry(2020, 269083, 173619, 78316),
             Entry(2021, 578896, 245219, 71600),
             Entry(2022, 346000, 271219, 26000),
             Entry(2023, 385530, 291219, 20000),
             Entry(2024, 491132, 321219, 30000),
             Entry(2025, 491132, 327219, 6000) >>)

\* the reduce with >= in place of >: of equal entries the last one stays
RECURSIVE PeakEntry_lastWins(_)
PeakEntry_lastWins(data) ==
    IF Len(data) = 1 THEN data[1]
    ELSE LET peak == PeakEntry_lastWins(SubSeq(data, 1, Len(data) - 1))
             current == data[Len(data)]
         IN  IF ~NumLess(current.networth, peak.networth) THEN current
             ELSE peak

RECURSIVE PeakEntry(_)
\* historicalData.reduce((peak, current) =>
\*     current.networth > peak.networth ? current : peak)
PeakEntry(data) ==
    IF Len(data) = 1 THEN data[1]
    ELSE LET peak == PeakEntry(SubSeq(data, 1, Len(data) - 1))
             current == data[Len(data)]
         IN  IF NumLess(peak.networth, current.networth) THEN current
             ELSE peak

\* the growth rate taken from the first entry's networth
calculateRealMetrics_fromNetworth(currentTotal, historicalData) ==
    IF historicalData.t # "array" \/ historicalData.a = << >>
    THEN Throw("Historical data must be a non-empty array")
    ELSE LET data == historicalData.a
             latest == data[Len(data)]
             first == data[1]
             years == NumSub(latest.year, first.year)
             totalSaved == latest.totalSaved
             actualGains == Minus(currentTotal, totalSaved)
             cagr == calculateCAGR(first.networth, currentTotal, years)
             peakEntry == PeakEntry(data)
         IN  IF ~cagr.ok THEN cagr
             ELSE Return([totalSaved |-> totalSaved,
                          actualGains |-> actualGains,
                          gainsPercentage |-> PercentOf(actualGains, totalSaved),
                          cagr |-> cagr.v,
                          years |-> years,
                          peakValue |-> peakEntry.networth,
                          peakYear |-> peakEntry.year,
                          recoveryFromPeak |->
                              PercentOf(Minus(currentTotal, peakEntry.networth),
                                        peakEntry.networth),
                          currentNetworth |-> currentTotal])

calculateRealMetrics(currentTotal, historicalData) ==
    IF historicalData.t # "array" \/ historicalData.a = << >>
    THEN Throw("Historical data must be a non-empty array")
    ELSE LET data == historicalData.a
             latest == data[Len(data)]
             first == data[1]
             years == NumSub(latest.year, first.year)
             totalSaved == latest.totalSaved
             actualGains == Minus(currentTotal, totalSaved)
             cagr == calculateCAGR(first.annualSavings, currentTotal, years)
             peakEntry == PeakEntry(data)
         IN  IF ~cagr.ok THEN cagr
             ELSE Return([totalSaved |-> totalSaved,
                          actualGains |-> actualGains,
                          gainsPercentage |-> PercentOf(actualGains, totalSaved),
                          cagr |-> cagr.v,
                          years |-> years,
                          peakValue |-> peakEntry.networth,
                          peakYear |-> peakEntry.year,
                          recoveryFromPeak |->
                              PercentOf(Minus(currentTotal, peakEntry.networth),
                                        peakEntry.networth),
                          currentNetworth |-> currentTotal])

\* a >= b in place of a > b
GreaterThan_orEqual(a, b) ==
    IF b.t # "number" THEN FALSE
    ELSE IF a.t = "Infinity" THEN TRUE
    ELSE IF a.t = "number" THEN ~NumLess(a, b)
    ELSE IF a.t # "ratio" THEN FALSE
    ELSE IF NumLess(Zero, a.den) THEN ~NumLess(a.num, NumTimes(b.u, a.den))
    ELSE ~NumLess(NumTimes(b.u, a.den), a.num)

\* a > b in JavaScript for a number a and a threshold b (a whole number or
\* undefined): false when either side is NaN
GreaterThan(a, b) ==
    IF b.t # "number" THEN FALSE
    ELSE IF a.t = "Infinity" THEN TRUE
    ELSE IF a.t = "number" THEN NumLess(b, a)
    ELSE IF a.t # "ratio" THEN FALSE
    ELSE IF NumLess(Zero, a.den) THEN NumLess(NumTimes(b.u, a.den), a.num)
    ELSE NumLess(a.num, NumTimes(b.u, a.den))

\* x.toFixed(0) for x = d / 100: the nearest integer, halves away from zero
ToFixed0OfHundredth(d) ==
    LET q == d.u \div 100
        r == Num(d.u % 100, d.f)
    IN  IF NumLess(Whole(50), r) THEN q + 1
        ELSE IF NumLess(r, Whole(50)) THEN q
        ELSE IF d.u >= 0 THEN q + 1
        ELSE q

\* ((allocation - reference) * total / 100).toFixed(0), where allocation is
\* a quotient over this total: (num / total - reference) * total / 100
\* = (num - reference * total) / 100
CorrectiveAmount(allocation, reference, total) ==
    ToFixed0OfHundredth(NumSub(allocation.num, NumTimes(reference, total)))

\* the fixed target of the hedge rule and of the crypto rule
CASH_TARGET == 15
CRYPTO_TARGET == 15

\* the hedge rule emitting a MEDIUM issue of priority 2
HedgeIssue_medium(allocations, thresholds, total) ==
    IF GreaterThan(Get(allocations, "hedge"), Get(thresholds, "cashMax"))
    THEN << [type |-> "MEDIUM", category |-> "cash_drag",
             message |-> [actual |-> Get(allocations, "hedge"),
                          target |-> Get(thresholds, "cashMax")],
             action |-> [verb |-> "Deploy",
                         amount |-> CorrectiveAmount(Get(allocations, "hedge"),
                                                     CASH_TARGET, total)],
             priority |-> 2, impact |-> "high"] >>
    ELSE << >>

\* the cash position rule
HedgeIssue(allocations, thresholds, total) ==
    IF GreaterThan(Get(allocations, "hedge"), Get(thresholds, "cashMax"))
    THEN << [type |-> "URGENT", category |-> "cash_drag",
             message |-> [actual |-> Get(allocations, "hedge"),
                          target |-> Get(thresholds, "cashMax")],
             action |-> [verb |-> "Deploy",
                         amount |-> CorrectiveAmount(Get(allocations, "hedge"),
                                                     CASH_TARGET, total)],
             priority |-> 1, impact |-> "high"] >>
    ELSE << >>

\* the growth rule trimming to the fixed 15% instead of its threshold
GrowthIssue_fixedTarget(allocations, thresholds, total) ==
    IF GreaterThan(Get(allocations, "growth"), Get(thresholds, "growthMax"))
    THEN << [type |-> "MEDIUM", category |-> "concentration_risk",
             message |-> [actual |-> Get(allocations, "growth"),
                          target |-> Get(thresholds, "growthMax")],
             action |-> [verb |-> "Trim",
                         amount |-> CorrectiveAmount(Get(allocations, "growth"),
                                                     CASH_TARGET, total)],
             priority |-> 2, impact |-> "medium"] >>
    ELSE << >>

\* the individual stock concentration rule
GrowthIssue(allocations, thresholds, total) ==
    IF GreaterThan(Get(allocations, "growth"), Get(thresholds, "growthMax"))
    THEN << [type |-> "MEDIUM", category |-> "concentration_risk",
             message |-> [actual |-> Get(allocations, "growth"),
                          target |-> Get(thresholds, "growthMax")],
             action |-> [verb |-> "Trim",
                         amount |-> CorrectiveAmount(Get(allocations, "growth"),
                                                     Get(thresholds, "growthMax").u,
                                                     total)],
             priority |-> 2, impact |-> "medium"] >>
    ELSE << >>

\* the crypto allocation rule
CryptoIssue(allocations, thresholds, total) ==
    IF GreaterThan(Get(allocations, "crypto"), Get(thresholds, "cryptoMax"))
    THEN << [type |-> "MEDIUM", category |-> "crypto_overweight",
             message |-> [actual |-> Get(allocations, "crypto"),
                          target |-> Whole(CRYPTO_TARGET)],
             action |-> [verb |-> "Reduce crypto exposure by",
                         amount |-> CorrectiveAmount(Get(allocations, "crypto"),
                                                     CRYPTO_TARGET, total)],
             priority |-> 2, impact |-> "medium"] >>
    ELSE << >>

RECURSIVE InsertByPriority(_, _)
\* issue put behind every element whose priority is not greater
InsertByPriority(sorted, issue) ==
    IF sorted = << >> THEN <<issue>>
    ELSE IF sorted[Len(sorted)].priority <= issue.priority
    THEN Append(sorted, issue)
    ELSE Append(InsertByPriority(SubSeq(sorted, 1, Len(sorted) - 1), issue),
                sorted[Len(sorted)])

RECURSIVE SortByPriority(_)
\* issues.sort((a, b) => a.priority - b.priority): a stable sort
SortByPriority(issues) ==
    IF issues = << >> THEN << >>
    ELSE InsertByPriority(SortByPriority(SubSeq(issues, 1, Len(issues) - 1)),
                          issues[Len(issues)])

calculatePortfolioHealth(p, thresholds) ==
    LET allocations == calculateAllocations(p)
        total == calculatePortfolioTotal(p)
    IN  IF ~allocations.ok THEN allocations
        ELSE Return(SortByPriority(
                 HedgeIssue(allocations.v, thresholds, total.v)
                 \o GrowthIssue(allocations.v, thresholds, total.v)
                 \o CryptoIssue(allocations.v, thresholds, total.v)))

\* calculateRealMetrics(currentTotal, HISTORICAL_DATA) throws exactly when
\* the guard of calculateCAGR(first.annualSavings, currentTotal, years)
\* does; first.annualSavings (20000) and years (2025 - 2018) are positive
calculateRealMetricsThrows(currentTotal) == ~GreaterThan(currentTotal, Zero)

(* lib/data/config.js *)
healthThresholds ==
    Obj([cashMax |-> Whole(25), growthMax |-> Whole(12), cryptoMax |-> Whole(20)])

-----------------------------------------------------------------------------
(* lib/utils/currency.js *)

\* PORTFOLIO_CONFIG.exchangeRates (lib/data/config.js)
exchangeRates ==
    Obj([SGD |-> Whole(1), USD |-> Num(0, 740), INR |-> Num(67, 300)])

RECURSIVE GCD(_, _)
GCD(a, b) == IF b = 0 THEN a ELSE GCD(b, a % b)

Abs(n) == IF n < 0 THEN -n ELSE n

\* a finite number as a fraction n / d of integers, d > 0
Frac(v) ==
    IF v.t = "number" THEN [n |-> v.u * Mills + v.f, d |-> Mills]
    ELSE LET n == v.num.u * Mills + v.num.f
             d == v.den.u * Mills + v.den.f
         IN  IF d < 0 THEN [n |-> -n, d |-> -d] ELSE [n |-> n, d |-> d]

\* x * y, reduced crosswise before multiplying
MulFrac(x, y) ==
    LET g1 == GCD(Abs(x.n), y.d)
        g2 == GCD(Abs(y.n), x.d)
    IN  IF x.n = 0 \/ y.n = 0 THEN [n |-> 0, d |-> 1]
        ELSE [n |-> (x.n \div g1) * (y.n \div g2),
              d |-> (x.d \div g2) * (y.d \div g1)]

\* x < y for fractions
FracLess(x, y) == x.n * y.d < y.n * x.d

\* Math.round of a fraction: the nearest integer, halves upwards
RoundFrac(x) == (2 * x.n + x.d) \div (2 * x.d)

\* Math.floor of a fraction
FloorFrac(x) == x.n \div x.d

\* Math.round(value)
MathRound(value) ==
    CASE value.t \in {"number", "ratio"} -> Whole(RoundFrac(Frac(value)))
      [] value.t \in {"Infinity", "-Infinity"} -> value
      [] value.t = "null" -> Zero
      [] OTHER -> NaN

\* amount * rate for a number amount that is not NaN and a rate that is a
\* finite number other than 0
Times(amount, rate) ==
    IF amount.t \in {"number", "ratio"}
    THEN MulFrac(Frac(amount), Frac(rate))
    ELSE IF (amount.t = "Infinity") = NumLess(Zero, rate) THEN PosInf
    ELSE NegInf

\* Math.round(sgdAmount * rate)
RoundedProduct(amount, rate) ==
    IF amount.t \in {"number", "ratio"}
    THEN Whole(RoundFrac(Times(amount, rate)))
    ELSE Times(amount, rate)

\* sgdAmount < 0
IsNegative(amount) ==
    \/ amount.t = "-Infinity"
    \/ (amount.t \in {"number", "ratio"} /\ Frac(amount).n < 0)

\* convertCurrency cutting the product off with Math.floor
convertCurrency_truncates(sgdAmount, targetCurrency, customRates) ==
    LET rates == IF Truthy(customRates) THEN customRates ELSE exchangeRates
    IN  IF TypeOf(sgdAmount) # "number" \/ sgdAmount.t = "NaN"
        THEN Return(MathRound(sgdAmount))
        ELSE IF IsNegative(sgdAmount) THEN Return(MathRound(sgdAmount))
        ELSE IF targetCurrency = "SGD" THEN Return(MathRound(sgdAmount))
        ELSE IF ~Truthy(Get(rates, targetCurrency))
        THEN Return(MathRound(sgdAmount))
        ELSE IF sgdAmount.t \in {"number", "ratio"}
        THEN Return(Whole(FloorFrac(Times(sgdAmount,
                                          Get(rates, targetCurrency)))))
        ELSE Return(Times(sgdAmount, Get(rates, targetCurrency)))

\* convertCurrency multiplying by a hundred times the rate
convertCurrency_inflated(sgdAmount, targetCurrency, customRates) ==
    LET rates == IF Truthy(customRates) THEN customRates ELSE exchangeRates
    IN  IF TypeOf(sgdAmount) # "number" \/ sgdAmount.t = "NaN"
        THEN Return(MathRound(sgdAmount))
        ELSE IF IsNegative(sgdAmount) THEN Return(MathRound(sgdAmount))
        ELSE IF targetCurrency = "SGD" THEN Return(MathRound(sgdAmount))
        ELSE IF ~Truthy(Get(rates, targetCurrency))
        THEN Return(MathRound(sgdAmount))
        ELSE Return(RoundedProduct(sgdAmount,
                                   NumTimes(100, Get(rates, targetCurrency))))

\* the thrown errors are caught inside and answered with
\* Math.round(sgdAmount): the caller always gets a return value
convertCurrency(sgdAmount, targetCurrency, customRates) ==
    LET rates == IF Truthy(customRates) THEN customRates ELSE exchangeRates
    IN  IF TypeOf(sgdAmount) # "number" \/ sgdAmount.t = "NaN"
        THEN Return(MathRound(sgdAmount))    \* Invalid SGD amount, caught
        ELSE IF IsNegative(sgdAmount)
        THEN Return(MathRound(sgdAmount))    \* Amount cannot be negative, caught
        ELSE IF targetCurrency = "SGD" THEN Return(MathRound(sgdAmount))
        ELSE IF ~Truthy(Get(rates, targetCurrency))
        THEN Return(MathRound(sgdAmount))    \* Unsupported currency, caught
        ELSE Return(RoundedProduct(sgdAmount, Get(rates, targetCurrency)))

\* a * b for finite numbers
Product(a, b) ==
    LET x == MulFrac(Frac(a), Frac(b))
    IN  Ratio(Whole(x.n), Whole(x.d))

\* 1 / rate
Inverse(rate) == Ratio(Whole(1), rate)

\* rates[currency] || 1
RateOrOne(currency) ==
    IF Truthy(Get(exchangeRates, currency)) THEN Get(exchangeRates, currency)
    ELSE Whole(1)

\* getExchangeRate answering the rate itself where the inverse is due
getExchangeRate_direct(fromCurrency, toCurrency) ==
    IF fromCurrency = toCurrency THEN Whole(1)
    ELSE IF fromCurrency = "SGD" THEN RateOrOne(toCurrency)
    ELSE IF toCurrency = "SGD" THEN RateOrOne(fromCurrency)
    ELSE Ratio(Get(exchangeRates, toCurrency), Get(exchangeRates, fromCurrency))

\* for currencies of the table or SGD
getExchangeRate(fromCurrency, toCurrency) ==
    IF fromCurrency = toCurrency THEN Whole(1)
    ELSE IF fromCurrency = "SGD" THEN RateOrOne(toCurrency)
    ELSE IF toCurrency = "SGD" THEN Inverse(RateOrOne(fromCurrency))
    ELSE Ratio(Get(exchangeRates, toCurrency), Get(exchangeRates, fromCurrency))

-----------------------------------------------------------------------------
(* lib/hooks/usePortfolio.js *)

NoTimer == [pending |-> FALSE]
\* a timeout whose closure holds the portfolio of the first render
Timer_ofFirstRender(p) == [pending |-> TRUE, portfolio |-> INITIAL_PORTFOLIO]

\* setTimeout(saveData, 1000) with the portfolio the closure captured
Timer(p) == [pending |-> TRUE, portfolio |-> p]

\* the first render with a save effect that lacks the test of loading: the
\* debounced save of the initial portfolio is scheduled at once
HookInit_savesAtMount ==
    /\ portfolio = INITIAL_PORTFOLIO
    /\ isInitialObject = TRUE
    /\ loading = TRUE
    /\ error = "none"
    /\ lastSaved = -1
    /\ timer = Timer(INITIAL_PORTFOLIO)
    /\ edits = 0

\* the state the hook is constructed with (useState initial values)
HookInit ==
    /\ portfolio = INITIAL_PORTFOLIO
    /\ isInitialObject = TRUE
    /\ loading = TRUE
    /\ error = "none"
    /\ lastSaved = -1
    /\ timer = NoTimer
    /\ edits = 0

\* the effect deriving total, allocations, health issues and metrics from a
\* changed portfolio: whether it ends in setError('Calculation error: ...')
CalculationEffectThrows(p) ==
    LET newTotal == calculatePortfolioTotal(p)
    IN  \/ ~newTotal.ok
        \/ ~calculateAllocations(p).ok
        \/ ~calculatePortfolioHealth(p, healthThresholds).ok
        \/ calculateRealMetricsThrows(newTotal.v)

\* what loadData() and the calculation effect of the render that follows
\* make of the value loaded and its validation: the portfolio, the error
\* and the value loaded
Loaded(saved, validated) ==
    IF ~Truthy(saved)
    THEN [portfolio |-> INITIAL_PORTFOLIO, isInitialObject |-> TRUE,
          error |-> "none", saved |-> saved]
    ELSE IF validated.ok
    THEN [portfolio |-> validated.v, isInitialObject |-> FALSE,
          error |-> IF CalculationEffectThrows(validated.v)
                    THEN "Calculation error" ELSE "none",
          saved |-> saved]
    ELSE [portfolio |-> INITIAL_PORTFOLIO, isInitialObject |-> TRUE,
          error |-> "Failed to load portfolio", saved |-> saved]

ValidatedLoad(saved) == Loaded(saved, validatePortfolio(saved))

\* loadData() on the store given
LoadOutcome(st, avail) == ValidatedLoad(loadPortfolio(st, avail))

\* the mount effect: loadData(), then the save effect of the render that
\* follows setLoading(false) schedules the debounced save
LoadEffect ==
    /\ loading
    /\ \E loaded \in {LoadOutcome(store, available)} :
          /\ portfolio' = loaded.portfolio
          /\ isInitialObject' = loaded.isInitialObject
          /\ error' = loaded.error
          /\ ret' = [op |-> "loadPortfolio", loaded |-> loaded.saved]
    /\ loading' = FALSE
    /\ timer' = Timer(portfolio')
    /\ UNCHANGED <<store, available, clock, lastSaved, edits, calc>>

\* updatePortfolio(updates) as a function of the current portfolio
updatePortfolio(current, updates) ==
    validatePortfolio(Spread(current, SpreadOf(updates)))

\* a call of updatePortfolio whose accepted update leaves the pending
\* timeout, and the portfolio it captured, in place
UpdateCall_keepsTimer(name, updates) ==
    /\ ~loading
    /\ edits < MaxEdits
    /\ edits' = edits + 1
    /\ LET validated == updatePortfolio(portfolio, updates)
       IN  IF validated.ok
           THEN /\ portfolio' = validated.v
                /\ isInitialObject' = FALSE
                /\ error' = IF CalculationEffectThrows(validated.v)
                            THEN "Calculation error" ELSE "none"
                /\ timer' = timer
                /\ ret' = [op |-> name, val |-> TRUE]
           ELSE /\ error' = "Update failed"
                /\ ret' = [op |-> name, val |-> FALSE]
                /\ UNCHANGED <<portfolio, isInitialObject, timer>>
    /\ UNCHANGED <<store, available, clock, loading, lastSaved, calc>>

\* a call of updatePortfolio; an accepted update re-renders, which clears
\* the pending timeout and schedules a new one
UpdateCall(name, updates) ==
    /\ ~loading
    /\ edits < MaxEdits
    /\ edits' = edits + 1
    /\ LET validated == updatePortfolio(portfolio, updates)
       IN  IF validated.ok
           THEN /\ portfolio' = validated.v
                /\ isInitialObject' = FALSE
                /\ error' = IF CalculationEffectThrows(validated.v)
                            THEN "Calculation error" ELSE "none"
                /\ timer' = Timer(validated.v)
                /\ ret' = [op |-> name, val |-> TRUE]
           ELSE /\ error' = "Update failed"
                /\ ret' = [op |-> name, val |-> FALSE]
                /\ UNCHANGED <<portfolio, isInitialObject, timer>>
    /\ UNCHANGED <<store, available, clock, loading, lastSaved, calc>>

UpdatePortfolio(updates) == UpdateCall("updatePortfolio", updates)

UpdateBucket(bucket, value) ==
    UpdateCall("updateBucket", Obj(bucket :> value))

\* resetPortfolio(): setting the same object again does not re-render
ResetPortfolio ==
    /\ ~loading
    /\ edits < MaxEdits
    /\ edits' = edits + 1
    /\ error' = "none"
    /\ portfolio' = INITIAL_PORTFOLIO
    /\ isInitialObject' = TRUE
    /\ timer' = IF isInitialObject THEN timer ELSE Timer(INITIAL_PORTFOLIO)
    /\ ret' = [op |-> "resetPortfolio", val |-> TRUE]
    /\ UNCHANGED <<store, available, clock, loading, lastSaved, calc>>

\* the debounce timeout fires: saveData()
SaveTimerFires(failAt) ==
    /\ timer.pending
    /\ timer' = NoTimer
    /\ LET out == savePortfolio(store, available, timer.portfolio, clock, failAt)
       IN  /\ store' = out.store
           /\ lastSaved' = IF out.val THEN clock ELSE lastSaved
           /\ ret' = [op |-> "saveData", val |-> out.val]
    /\ UNCHANGED <<available, clock, portfolio, isInitialObject, loading,
                   error, edits, calc>>

\* saveNow()
SaveNow(failAt) ==
    /\ ~loading
    /\ LET out == savePortfolio(store, available, portfolio, clock, failAt)
       IN  /\ store' = out.store
           /\ lastSaved' = IF out.val THEN clock ELSE lastSaved
           /\ ret' = [op |-> "saveNow", val |-> out.val]
    /\ UNCHANGED <<available, clock, portfolio, isInitialObject, loading,
                   error, timer, edits, calc>>

\* the Retry button of the error page: window.location.reload() discards
\* the page with its pending timeout and mounts the hook anew on the same
\* storage
Retry ==
    /\ ~loading
    /\ error # "none"
    /\ portfolio' = INITIAL_PORTFOLIO
    /\ isInitialObject' = TRUE
    /\ loading' = TRUE
    /\ error' = "none"
    /\ lastSaved' = -1
    /\ timer' = NoTimer
    /\ ret' = [op |-> "reload", val |-> TRUE]
    /\ UNCHANGED <<store, available, clock, edits, calc>>

\* time passes
Tick ==
    /\ clock < MaxClock
    /\ clock' = clock + 1
    /\ UNCHANGED <<store, available, portfolio, isInitialObject, loading,
                   error, lastSaved, timer, edits, ret, calc>>

-----------------------------------------------------------------------------
(* pages/index.js *)

\* what Dashboard returns for the hook's state: the spinner while loading,
\* the error page (an Alert and the Retry button, nothing else) while an
\* error is set, and otherwise the dashboard with PortfolioMetrics,
\* HealthAlerts and PortfolioBuckets
DashboardView ==
    IF loading THEN "LoadingSpinner"
    ELSE IF error # "none" THEN "ErrorPage"
    ELSE "Dashboard"

\* const displayTotal = total * (currency === 'SGD' ? 1 :
\*                               currency === 'USD' ? 0.74 : 67.30)
\* for a finite total whose product has at most three decimals
displayTotal(total, currency) ==
    LET rate == IF currency = "SGD" THEN Whole(1)
                ELSE IF currency = "USD" THEN Num(0, 740)
                ELSE Num(67, 300)
        x == MulFrac(Frac(total), Frac(rate))
    IN  Num(x.n \div x.d, ((x.n % x.d) * Mills) \div x.d)

-----------------------------------------------------------------------------
(* components/portfolio/PortfolioMetrics.js *)

\* PORTFOLIO_CONFIG.targets (lib/data/config.js), in SGD
targets == [lean |-> Whole(1850000), full |-> Whole(2500000)]

\* the FI progress PortfolioMetrics computes from its total prop
PortfolioMetrics(total) ==
    [leanFI |-> calculateFIProgress(total, targets.lean),
     fullFI |-> calculateFIProgress(total, targets.full)]

-----------------------------------------------------------------------------
(* Inputs *)

\* arguments handed to savePortfolio and embedded in imported documents:
\* a valid portfolio, one lacking hedge, a negative bucket, a NaN bucket, a
\* bucket holding undefined, and a value that is no object
PortfolioArgs ==
    { Pf(Whole(1), Whole(2), Whole(3), Whole(4)),
      Obj([core |-> Whole(1), growth |-> Whole(2), crypto |-> Whole(3)]),
      Pf(Whole(-5), Whole(2), Whole(3), Whole(4)),
      Pf(NaN, Whole(2), Whole(3), Whole(4)),
      Pf(Whole(1), Whole(2), Whole(3), Undefined),
      Null }

\* arguments handed to saveSettings and embedded in imported documents
SettingsArgs == { Obj([currency |-> Str(<<"U", "S", "D">>)]), Null }

\* the texts handed to importData
ImportDocs ==
    {Garbage, Json(Null), Json(EmptyObj)}
    \cup {JSONstringify(Obj([portfolio |-> p])) : p \in PortfolioArgs}
    \cup {JSONstringify(Obj([settings |-> c])) : c \in SettingsArgs}
    \cup {JSONstringify(Obj([portfolio |-> p, settings |-> c])) :
            p \in {Pf(Whole(1), Whole(2), Whole(3), Whole(4))},
            c \in SettingsArgs}

\* the write of an operation that fails: none, or one of its setItem calls
FailPoints(n) == 0..n

-----------------------------------------------------------------------------
(* The storage service called directly *)

HookIdle ==
    UNCHANGED <<portfolio, isInitialObject, loading, error, lastSaved,
                timer, edits, calc>>

SavePortfolio(p, failAt) ==
    /\ LET out == savePortfolio(store, available, p, clock, failAt)
       IN  /\ store' = out.store
           /\ ret' = [op |-> "savePortfolio", val |-> out.val]
    /\ UNCHANGED <<available, clock>>
    /\ HookIdle

SaveSettings(settings, failAt) ==
    /\ LET out == saveSettings(store, available, settings, clock, failAt)
       IN  /\ store' = out.store
           /\ ret' = [op |-> "saveSettings", val |-> out.val]
    /\ UNCHANGED <<available, clock>>
    /\ HookIdle

ImportData(jsonData, failAt) ==
    /\ LET out == importData(store, available, jsonData, clock, failAt)
       IN  /\ store' = out.store
           /\ ret' = [op |-> "importData", val |-> out.val]
    /\ UNCHANGED <<available, clock>>
    /\ HookIdle

LoadPortfolio ==
    /\ ret' = [op |-> "loadPortfolio",
               loaded |-> loadPortfolio(store, available)]
    /\ UNCHANGED <<store, available, clock>>
    /\ HookIdle

\* importData(exportData())
ImportExport(failAt) ==
    /\ LET doc == exportData(store, available, clock)
           out == importData(store, available, doc, clock, failAt)
       IN  /\ store' = out.store
           /\ ret' = [op |-> "importExport", val |-> out.val]
    /\ UNCHANGED <<available, clock>>
    /\ HookIdle

ClearAllData ==
    /\ LET out == clearAllData(store, available)
       IN  /\ store' = out.store
           /\ ret' = [op |-> "clearAllData", val |-> out.val]
    /\ UNCHANGED <<available, clock>>
    /\ HookIdle

\* the browser starts or stops accepting localStorage writes
SetAvailable(b) ==
    /\ available # b
    /\ available' = b
    /\ UNCHANGED <<store, clock, ret>>
    /\ HookIdle

NoCall == [op |-> "none"]
NoCalc == [fn |-> "none"]

InitStorage ==
    /\ store = EmptyStore
    /\ available = TRUE
    /\ clock = 0
    /\ ret = NoCall
    /\ calc = NoCalc
    /\ HookInit

NextStorage ==
    \/ \E p \in PortfolioArgs, failAt \in FailPoints(2) : SavePortfolio(p, failAt)
    \/ \E c \in SettingsArgs, failAt \in FailPoints(1) : SaveSettings(c, failAt)
    \/ \E doc \in ImportDocs, failAt \in FailPoints(3) : ImportData(doc, failAt)
    \/ \E failAt \in FailPoints(3) : ImportExport(failAt)
    \/ LoadPortfolio
    \/ ClearAllData
    \/ \E b \in BOOLEAN : SetAvailable(b)
    \/ Tick

SpecStorage == InitStorage /\ [][NextStorage]_vars

-----------------------------------------------------------------------------
(* The dashboard session: the hook mounted on whatever localStorage holds *)

\* what an earlier session's savePortfolio(p) left in storage
Snapshot(p) ==
    JSONstringify(With(With(p, "lastUpdated", ISOString(-1)),
                       "version", STORAGE_VERSION))

\* stored portfolio texts found at mount: nothing, the empty string, a text
\* that does not parse, a JSON number, a valid record with a sub-cent value,
\* a record lacking hedge, a record with a negative bucket
MountPrimary ==
    { Absent, EmptyText, Garbage, Json(Whole(5)),
      Snapshot(Pf(Num(1, 5), Whole(2), Whole(3), Whole(4))),
      Snapshot(Obj([core |-> Whole(1), growth |-> Whole(2), crypto |-> Whole(3)])),
      Snapshot(Pf(Whole(-5), Whole(2), Whole(3), Whole(4))) }

\* stored backup texts found at mount
MountBackup ==
    { Absent, Garbage, Json(Null),
      Snapshot(Pf(Whole(9), Whole(8), Whole(7), Whole(6))),
      Snapshot(Obj([core |-> Whole(9)])) }

\* buckets named in calls of updateBucket
InputBuckets == {"core", "hedge"}

\* values handed to updateBucket
InputValues ==
    { Whole(MAX_VALUE), Num(MAX_VALUE, 1), Whole(-1), NaN, PosInf,
      Null, Undefined, Bool(FALSE),
      Str(<<>>), Str(<<"a", "b", "c">>),
      Str(<<"$", "0", ".", "0", "0", "5">>), Str(<<"1", ".", "5", ".">>) }

\* objects handed to updatePortfolio
UpdateArgs ==
    { Null, EmptyObj,
      Pf(Whole(MAX_VALUE), Whole(MAX_VALUE), Whole(MAX_VALUE), Whole(MAX_VALUE)),
      Obj([core |-> Zero, growth |-> Zero, crypto |-> Zero, hedge |-> Zero,
           savings |-> Str(<<"$", "0", ".", "0", "0", "5">>)]),
      Obj([savings |-> Whole(-1)]),
      Pf(Zero, Zero, Whole(-1), NaN) }

Init ==
    /\ store \in [{"PORTFOLIO", "SETTINGS", "BACKUP"} -> MountPrimary \cup MountBackup]
    /\ store.PORTFOLIO \in MountPrimary
    /\ store.BACKUP \in MountBackup
    /\ store.SETTINGS = Absent
    /\ available \in BOOLEAN
    /\ clock = 0
    /\ ret = NoCall
    /\ calc = NoCalc
    /\ HookInit

Next ==
    \/ LoadEffect
    \/ \E updates \in UpdateArgs : UpdatePortfolio(updates)
    \/ \E bucket \in InputBuckets, value \in InputValues : UpdateBucket(bucket, value)
    \/ ResetPortfolio
    \/ \E failAt \in FailPoints(2) : SaveTimerFires(failAt)
    \/ \E failAt \in FailPoints(2) : SaveNow(failAt)
    \/ Retry
    \/ Tick

Spec == Init /\ [][Next]_vars

\* the session mounted on available storage without a backup whose primary
\* is absent or a JSON text
InitFair ==
    /\ Init
    /\ available
    /\ store.BACKUP = Absent
    /\ store.PORTFOLIO.k \in {"absent", "json"}

\* the session in which a timeout that stays pending does fire: the
\* callback handed to setTimeout runs unless clearTimeout or a reload
\* removes it
\* the steps of Next, updateBucket with a value that is accepted as it is,
\* one that is rejected and one that is taken for 0
NextFair ==
    \/ LoadEffect
    \/ \E updates \in UpdateArgs : UpdatePortfolio(updates)
    \/ \E bucket \in InputBuckets,
          value \in {Whole(MAX_VALUE), Whole(-1), Null} :
          UpdateBucket(bucket, value)
    \/ ResetPortfolio
    \/ \E failAt \in FailPoints(2) : SaveTimerFires(failAt)
    \/ \E failAt \in FailPoints(2) : SaveNow(failAt)
    \/ Retry
    \/ Tick

SpecFair ==
    /\ InitFair
    /\ [][NextFair]_vars
    /\ WF_timer(\E failAt \in FailPoints(2) : SaveTimerFires(failAt))

-----------------------------------------------------------------------------
(* The calculations applied to bounded inputs *)

\* bucket values: 0, 0.5, 1, ... and values that are no numbers
CalcNumbers == {Num(k \div 2, (k % 2) * 500) : k \in 0..MaxHalves}
CalcValues == CalcNumbers \cup {NaN, Null, Undefined, Str(<<"1">>)}

\* portfolios over those values, a bucket possibly missing, and the portfolio
\* whose allocations are core 55%, growth 5%, crypto 10%, hedge 30%
CalcPortfolios ==
    {Obj(o) : o \in UNION {[ks -> CalcValues] : ks \in SUBSET Buckets}}
    \cup {Pf(Whole(55), Whole(5), Whole(10), Whole(30))}

\* thresholds: the configured record, the record keyed hedgeMax, and a
\* record with a cash limit below the fixed target
ThresholdArgs ==
    { healthThresholds,
      Obj([hedgeMax |-> Whole(25), growthMax |-> Whole(12), cryptoMax |-> Whole(20)]),
      Obj([cashMax |-> Whole(10), growthMax |-> Whole(30), cryptoMax |-> Whole(40)]) }

\* amounts handed to the functions of one number: the bucket values, a
\* negative amount, NaN and Infinity
CalcAmounts == CalcNumbers \cup {Whole(-1), NaN, PosInf}

\* FI targets
TargetArgs == {Whole(-1), Zero, Num(0, 500), Whole(2), NaN, Null}

\* historical series: no array, the empty array, a single entry, two
\* entries of one year, first entries that saved nothing or less, series
\* with a peak inside and with a shared peak, and the bundled series
HistoryArgs ==
    { Null, Array(<< >>),
      Array(<<Entry(1, 5, 4, 4)>>),
      Array(<<Entry(1, 5, 4, 4), Entry(1, 6, 5, 1)>>),
      Array(<<Entry(1, 5, 4, 0), Entry(3, 6, 5, 1)>>),
      Array(<<Entry(1, 5, 4, -1), Entry(3, 6, 5, 1)>>),
      Array(<<Entry(1, 2, 2, 2), Entry(2, 9, 4, 2), Entry(3, 7, 5, 1)>>),
      Array(<<Entry(1, 2, 2, 2), Entry(2, 9, 4, 2), Entry(3, 9, 5, 1)>>),
      Array(<<Entry(1, 9, 2, 2), Entry(2, 7, 4, 2), Entry(3, 9, 5, 1)>>),
      HISTORICAL_DATA }

\* amounts handed to convertCurrency, the 100 of the INR example among them
ConvertAmounts == CalcAmounts \cup {Whole(100), Undefined}

\* target currencies: the base currency, the two of the table, and one that
\* no table holds
CurrencyArgs == {"SGD", "USD", "INR", "EUR"}

\* customRates: none, single-rate tables, and a table holding a rate of 0
RateTables ==
    { Null,
      Obj([INR |-> Num(67, 300)]),
      Obj([USD |-> Num(0, 740)]),
      Obj([USD |-> Zero, INR |-> Num(67, 300)]) }

\* a portfolio to evaluate, or none: the functions that take no portfolio
\* are applied from the state without one
InitCalc ==
    /\ calc \in {[fn |-> "input", portfolio |-> p] : p \in CalcPortfolios}
               \cup {NoCalc}
    /\ store = EmptyStore
    /\ available = TRUE
    /\ clock = 0
    /\ ret = NoCall
    /\ HookInit

CalcFrame ==
    UNCHANGED <<store, available, clock, portfolio, isInitialObject, loading,
                error, lastSaved, timer, edits, ret>>

CalculatePortfolioTotal ==
    /\ calc.fn = "input"
    /\ calc' = [fn |-> "calculatePortfolioTotal", portfolio |-> calc.portfolio,
                out |-> calculatePortfolioTotal(calc.portfolio)]
    /\ CalcFrame

CalculateAllocations ==
    /\ calc.fn = "input"
    /\ calc' = [fn |-> "calculateAllocations", portfolio |-> calc.portfolio,
                out |-> calculateAllocations(calc.portfolio)]
    /\ CalcFrame

CalculatePortfolioHealth(thresholds) ==
    /\ calc.fn = "input"
    /\ calc' = [fn |-> "calculatePortfolioHealth", portfolio |-> calc.portfolio,
                thresholds |-> thresholds,
                out |-> calculatePortfolioHealth(calc.portfolio, thresholds)]
    /\ CalcFrame

CalculateFIProgress(currentValue, targetValue) ==
    /\ calc = NoCalc
    /\ calc' = [fn |-> "calculateFIProgress", currentValue |-> currentValue,
                targetValue |-> targetValue,
                out |-> calculateFIProgress(currentValue, targetValue)]
    /\ CalcFrame

CalculateRealMetrics(currentTotal, historicalData) ==
    /\ calc = NoCalc
    /\ calc' = [fn |-> "calculateRealMetrics", currentTotal |-> currentTotal,
                historicalData |-> historicalData,
                out |-> calculateRealMetrics(currentTotal, historicalData)]
    /\ CalcFrame

ConvertCurrency(sgdAmount, targetCurrency, customRates) ==
    /\ calc = NoCalc
    /\ calc' = [fn |-> "convertCurrency", sgdAmount |-> sgdAmount,
                targetCurrency |-> targetCurrency, customRates |-> customRates,
                out |-> convertCurrency(sgdAmount, targetCurrency, customRates)]
    /\ CalcFrame

\* convertCurrency(x, C), the result taken back to SGD by
\* getExchangeRate(C, 'SGD'), and that converted to C again
ConvertThereAndBack(sgdAmount, targetCurrency) ==
    /\ calc = NoCalc
    /\ LET first == convertCurrency(sgdAmount, targetCurrency, Null)
           toBase == Product(first.v, getExchangeRate(targetCurrency, "SGD"))
       IN  calc' = [fn |-> "convertThereAndBack", sgdAmount |-> sgdAmount,
                    targetCurrency |-> targetCurrency,
                    first |-> first, toBase |-> toBase,
                    out |-> convertCurrency(toBase, targetCurrency, Null)]
    /\ CalcFrame

\* totals shown on the dashboard and the currencies of its selector
DashboardTotals == {Zero, Whole(100000), Whole(250000)}
DisplayCurrencies == {"SGD", "USD", "INR"}

\* Dashboard rendering PortfolioMetrics with total={displayTotal}
RenderPortfolioMetrics(total, currency) ==
    /\ calc = NoCalc
    /\ calc' = [fn |-> "PortfolioMetrics", total |-> total,
                currency |-> currency,
                displayTotal |-> displayTotal(total, currency),
                out |-> PortfolioMetrics(displayTotal(total, currency))]
    /\ CalcFrame

NextCalc ==
    \/ CalculatePortfolioTotal
    \/ CalculateAllocations
    \/ \E thresholds \in ThresholdArgs : CalculatePortfolioHealth(thresholds)
    \/ \E currentValue \in CalcAmounts, targetValue \in TargetArgs :
          CalculateFIProgress(currentValue, targetValue)
    \/ \E currentTotal \in CalcAmounts \cup {Whole(491132)},
          historicalData \in HistoryArgs :
          CalculateRealMetrics(currentTotal, historicalData)
    \/ \E sgdAmount \in ConvertAmounts, targetCurrency \in CurrencyArgs,
          customRates \in RateTables :
          ConvertCurrency(sgdAmount, targetCurrency, customRates)
    \/ \E sgdAmount \in CalcNumbers \cup {Whole(100)},
          targetCurrency \in {"SGD", "USD", "INR"} :
          ConvertThereAndBack(sgdAmount, targetCurrency)
    \/ \E total \in DashboardTotals, currency \in DisplayCurrencies :
          RenderPortfolioMetrics(total, currency)

SpecCalc == InitCalc /\ [][NextCalc]_vars

-----------------------------------------------------------------------------
(* Claims about the storage service (SpecStorage) *)

\* a record without the fields named
Without(v, keys) ==
    IF v.t = "object" THEN Obj([k \in DOMAIN v.o \ keys |-> v.o[k]]) ELSE v
TimestampFields == {"lastUpdated", "timestamp"}
SameUpToTimestamps(a, b) == Without(a, TimestampFields) = Without(b, TimestampFields)

\* C1: when savePortfolio succeeds on a store that already holds a primary
\* record, the backup key afterwards holds that earlier primary record (the
\* snapshot before this save), not a copy of the record just written.
C1_BackupHoldsPriorSnapshot ==
    [][\A p \in PortfolioArgs :
          (SavePortfolio(p, 0) /\ ret'.val /\ TextTruthy(store.PORTFOLIO))
          => store'.BACKUP = store.PORTFOLIO]_vars

\* the portfolio embedded in an import document
EmbeddedPortfolio(doc) == Get(JSONparse(doc).v, "portfolio")
CarriesPortfolio(doc) ==
    /\ JSONparse(doc).ok
    /\ JSONparse(doc).v.t = "object"
    /\ Truthy(EmbeddedPortfolio(doc))

\* C4: importData never stores an embedded portfolio that validatePortfolio
\* rejects: importing such a document leaves the primary key as it was.
C4_ImportValidatesPortfolio ==
    [][\A doc \in ImportDocs, failAt \in FailPoints(3) :
          (/\ ImportData(doc, failAt)
           /\ CarriesPortfolio(doc)
           /\ ~validatePortfolio(EmbeddedPortfolio(doc)).ok)
          => store'.PORTFOLIO = store.PORTFOLIO]_vars

\* C5 as claimed: with every write succeeding, importData(exportData())
\* returns true and loadPortfolio() and loadSettings() give the same records
\* after it as before, up to lastUpdated and timestamp.
C5_RoundTripUpToTimestamps ==
    [][ImportExport(0) =>
          /\ ret'.val
          /\ SameUpToTimestamps(loadPortfolio(store, available),
                                loadPortfolio(store', available'))
          /\ SameUpToTimestamps(loadSettings(store, available),
                                loadSettings(store', available'))]_vars

\* C5 amended: as above, except that when no settings were stored the
\* settings read back afterwards also carry the version field saveSettings adds.
C5_RoundTripUpToMetadata ==
    [][ImportExport(0) =>
          /\ ret'.val
          /\ SameUpToTimestamps(loadPortfolio(store, available),
                                loadPortfolio(store', available'))
          /\ IF TextTruthy(store.SETTINGS)
             THEN SameUpToTimestamps(loadSettings(store, available),
                                     loadSettings(store', available'))
             ELSE SameUpToTimestamps(
                      Without(loadSettings(store, available), {"version"}),
                      Without(loadSettings(store', available'), {"version"}))]_vars

\* a round trip has run on a store holding a portfolio and settings
C5_Witness ==
    /\ ret.op = "importExport"
    /\ ret.val
    /\ TextTruthy(store.PORTFOLIO)
    /\ TextTruthy(store.SETTINGS)
    /\ loadPortfolio(store, available) # Null

-----------------------------------------------------------------------------
(* Claims about loading and the hook (Spec) *)

\* a stored snapshot: the JSON text of an object
IsSnapshot(text) == text.k = "json" /\ text.v.t = "object"

\* C2 as claimed: when the primary key is absent and a backup snapshot is
\* stored, the load run at mount returns the backup snapshot.
C2_AbsentPrimaryRestoresBackup ==
    [][(/\ LoadEffect
        /\ available
        /\ store.PORTFOLIO = Absent
        /\ IsSnapshot(store.BACKUP))
       => ret'.loaded = store.BACKUP.v]_vars

\* C2 amended: when the primary key is absent, loadPortfolio returns null,
\* whether or not a backup snapshot is stored.
C2_AbsentPrimaryReturnsNull ==
    [][(LoadEffect /\ store.PORTFOLIO = Absent) => ret'.loaded = Null]_vars

\* the mount-time load has run on an absent primary beside a stored backup
C2_Witness ==
    /\ ret.op = "loadPortfolio"
    /\ ret.loaded = Null
    /\ available
    /\ store.PORTFOLIO = Absent
    /\ IsSnapshot(store.BACKUP)

\* the primary text is there but does not parse, or parses to something
\* that lacks one of core, growth, crypto, hedge
PrimaryBroken(st) ==
    /\ TextTruthy(st.PORTFOLIO)
    /\ \/ ~JSONparse(st.PORTFOLIO).ok
       \/ st.PORTFOLIO.v.t # "object"
       \/ \E b \in Buckets : ~HasKey(st.PORTFOLIO.v, b)

InRange(v) ==
    /\ IsFinite(v)
    /\ ~NumLess(v, Zero)
    /\ ~NumLess(Whole(MAX_VALUE), v)

\* C6: in every reachable state of the hook the current portfolio has the
\* four buckets, each a finite number in [0, 10,000,000], and passes
\* validatePortfolio.
C6_CurrentPortfolioValid ==
    /\ \A b \in Buckets : HasKey(portfolio, b) /\ InRange(Get(portfolio, b))
    /\ validatePortfolio(portfolio).ok

\* an update to the ceiling value has been accepted after an invalid record
\* was found in storage at mount
C6_Witness ==
    /\ ret.op = "updateBucket"
    /\ ret.val
    /\ Get(portfolio, "core") = Whole(MAX_VALUE)
    /\ PrimaryBroken(store)

-----------------------------------------------------------------------------
(* Claims about the calculations (SpecCalc) *)

\* the four buckets are present and are finite numbers >= 0
NonNegativeBuckets(p) ==
    /\ p.t = "object"
    /\ \A b \in Buckets :
          /\ HasKey(p, b)
          /\ Get(p, b).t = "number"
          /\ ~NumLess(Get(p, b), Zero)

\* core + growth + crypto + hedge of a portfolio of finite numbers
SumOfBuckets(p) ==
    NumAdd(NumAdd(NumAdd(Get(p, "core"), Get(p, "growth")), Get(p, "crypto")),
           Get(p, "hedge"))

\* C7: for a portfolio with non-negative buckets calculateAllocations
\* returns, when the total is greater than 0, for each bucket the quotient
\* bucket * 100 / total, and the four quotients add up to 100; when the
\* total is 0 it returns exactly 0 for all four buckets.
C7_AllocationsSumTo100 ==
    (calc.fn = "calculateAllocations" /\ NonNegativeBuckets(calc.portfolio)) =>
        /\ calc.out.ok
        /\ LET total == SumOfBuckets(calc.portfolio)
               a == calc.out.v
           IN  IF total = Zero
               THEN \A b \in Buckets : Get(a, b) = Zero
               ELSE /\ \A b \in Buckets :
                          Get(a, b) = Ratio(NumTimes(100, Get(calc.portfolio, b)),
                                            total)
                    /\ NumAdd(NumAdd(NumAdd(Get(a, "core").num,
                                            Get(a, "growth").num),
                                     Get(a, "crypto").num),
                              Get(a, "hedge").num) = NumTimes(100, total)

\* allocations of a portfolio with a fractional bucket and a positive total
C7_Witness ==
    /\ calc.fn = "calculateAllocations"
    /\ NonNegativeBuckets(calc.portfolio)
    /\ Get(calc.portfolio, "core") = Num(0, 500)
    /\ Get(calc.portfolio, "hedge") = Whole(2)
    /\ calc.out.ok
    /\ Get(calc.out.v, "core") # Zero

\* the expected total, a bucket without a value counting as 0
SumOfDefined(p) ==
    LET value(b) == IF Get(p, b).t = "undefined" THEN Zero ELSE Get(p, b)
    IN  NumAdd(NumAdd(NumAdd(value("core"), value("growth")), value("crypto")),
               value("hedge"))

IsRoundedHundredth(n, d) ==
    LET e == NumSub(d, Whole(100 * n))
    IN  IF ~NumLess(d, Zero)
        THEN ~NumLess(e, Whole(-50)) /\ NumLess(e, Whole(50))
        ELSE NumLess(Whole(-50), e) /\ ~NumLess(Whole(50), e)

\* the amount of an issue is (actual - reference) * total / 100 in whole
\* units, actual being the bucket's share of the total in percent
AmountFollows(issue, bucket, reference) ==
    IsRoundedHundredth(issue.action.amount,
                       NumSub(NumTimes(100, Get(calc.portfolio, bucket)),
                              NumTimes(reference, SumOfDefined(calc.portfolio))))

HealthComputed ==
    calc.fn = "calculatePortfolioHealth" /\ calc.out.ok

\* C9 as stated: the corrective amount of every issue is (actual -
\* reference) * total / 100 in whole units, the reference being the
\* configured threshold for the growth rule and for the crypto rule and the
\* fixed 15% for the hedge rule.
C9_CryptoTrimsToThreshold ==
    HealthComputed =>
        \A i \in 1..Len(calc.out.v) :
            LET issue == calc.out.v[i]
            IN  /\ issue.category = "cash_drag" =>
                       AmountFollows(issue, "hedge", 15)
                /\ issue.category = "concentration_risk" =>
                       AmountFollows(issue, "growth",
                                     Get(calc.thresholds, "growthMax").u)
                /\ issue.category = "crypto_overweight" =>
                       AmountFollows(issue, "crypto",
                                     Get(calc.thresholds, "cryptoMax").u)

\* C9: the corrective amount of every issue is (actual - reference) * total
\* / 100 rounded to whole units, the reference being the configured
\* threshold for the growth rule only and the fixed 15% for both the hedge
\* rule and the crypto rule.
C9_CryptoTrimsToFixedTarget ==
    HealthComputed =>
        \A i \in 1..Len(calc.out.v) :
            LET issue == calc.out.v[i]
            IN  /\ issue.category = "cash_drag" =>
                       AmountFollows(issue, "hedge", 15)
                /\ issue.category = "concentration_risk" =>
                       AmountFollows(issue, "growth",
                                     Get(calc.thresholds, "growthMax").u)
                /\ issue.category = "crypto_overweight" =>
                       AmountFollows(issue, "crypto", 15)

\* all three rules fire on one portfolio, with amounts that are not zero
C9_Witness ==
    /\ HealthComputed
    /\ Len(calc.out.v) = 3
    /\ calc.out.v[1].category = "cash_drag"
    /\ calc.out.v[2].category = "concentration_risk"
    /\ calc.out.v[3].category = "crypto_overweight"
    /\ \A i \in 1..3 : calc.out.v[i].action.amount # 0

\* the allocations of p are hedge 30%, growth 5% and crypto 10%
AllocatedAsInExample(p) ==
    /\ NonNegativeBuckets(p)
    /\ SumOfBuckets(p) # Zero
    /\ NumTimes(100, Get(p, "hedge")) = NumTimes(30, SumOfBuckets(p))
    /\ NumTimes(100, Get(p, "growth")) = NumTimes(5, SumOfBuckets(p))
    /\ NumTimes(100, Get(p, "crypto")) = NumTimes(10, SumOfBuckets(p))

\* exactly one issue, cash_drag with severity URGENT, as the first element
OnlyCashDrag(issues) ==
    /\ Len(issues) = 1
    /\ issues[1].category = "cash_drag"
    /\ issues[1].type = "URGENT"

\* C10 as stated: with the thresholds {hedgeMax: 25, growthMax: 12,
\* cryptoMax: 20} and allocations hedge 30%, growth 5%, crypto 10% the
\* evaluator emits exactly one issue, cash_drag, URGENT, first.
C10_HedgeMaxRecord ==
    ( /\ calc.fn = "calculatePortfolioHealth"
      /\ calc.thresholds = Obj([hedgeMax |-> Whole(25), growthMax |-> Whole(12),
                                cryptoMax |-> Whole(20)])
      /\ AllocatedAsInExample(calc.portfolio) ) =>
        calc.out.ok /\ OnlyCashDrag(calc.out.v)

\* C10: with the thresholds {cashMax: 25, growthMax: 12, cryptoMax: 20},
\* the hedge limit under the key cashMax the evaluator reads, and
\* allocations hedge 30%, growth 5%, crypto 10% the evaluator emits exactly
\* one issue, cash_drag, URGENT, first.
C10_CashMaxRecord ==
    ( /\ calc.fn = "calculatePortfolioHealth"
      /\ calc.thresholds = healthThresholds
      /\ AllocatedAsInExample(calc.portfolio) ) =>
        calc.out.ok /\ OnlyCashDrag(calc.out.v)

\* the example portfolio evaluated against the configured thresholds
C10_Witness ==
    /\ calc.fn = "calculatePortfolioHealth"
    /\ calc.thresholds = healthThresholds
    /\ AllocatedAsInExample(calc.portfolio)
    /\ calc.out.ok
    /\ Len(calc.out.v) = 1

\* the share of bucket in the total of the portfolio evaluated strictly
\* exceeds the maximum the thresholds hold under key
ExceedsMaximum(bucket, key) ==
    LET p == calc.portfolio
        max == Get(calc.thresholds, key)
    IN  /\ max.t = "number"
        /\ Get(p, bucket).t = "number"
        /\ SumOfDefined(p) # Zero
        /\ NumLess(NumTimes(max.u, SumOfDefined(p)),
                   NumTimes(100, Get(p, bucket)))

\* C11: the list calculatePortfolioHealth returns is in non-decreasing
\* priority order, a cash_drag issue (URGENT, priority 1) standing before
\* every concentration_risk and crypto_overweight issue (MEDIUM, priority
\* 2); it holds at most one issue per rule; and it is empty exactly when no
\* bucket's share strictly exceeds its maximum (cashMax, growthMax,
\* cryptoMax) in the thresholds.
C11_IssuesOrderedAndExact ==
    HealthComputed =>
        LET issues == calc.out.v
        IN  /\ \A i, j \in 1..Len(issues) :
                  i < j => /\ issues[i].priority <= issues[j].priority
                           /\ issues[i].category # issues[j].category
                           /\ issues[j].category # "cash_drag"
            /\ \A i \in 1..Len(issues) :
                  IF issues[i].category = "cash_drag"
                  THEN issues[i].type = "URGENT" /\ issues[i].priority = 1
                  ELSE /\ issues[i].category \in {"concentration_risk",
                                                  "crypto_overweight"}
                       /\ issues[i].type = "MEDIUM"
                       /\ issues[i].priority = 2
            /\ (issues = << >>) <=>
                  ~ \/ ExceedsMaximum("hedge", "cashMax")
                    \/ ExceedsMaximum("growth", "growthMax")
                    \/ ExceedsMaximum("crypto", "cryptoMax")

\* a cash_drag issue followed by a crypto_overweight issue, and no other
C11_Witness ==
    /\ HealthComputed
    /\ calc.thresholds = healthThresholds
    /\ Len(calc.out.v) = 2
    /\ calc.out.v[1].category = "cash_drag"
    /\ calc.out.v[2].category = "crypto_overweight"

\* a <= b for percentages: whole numbers, or quotients over one positive
\* denominator
AtMost(a, b) ==
    IF a.t = "number" /\ b.t = "number" THEN ~NumLess(b, a)
    ELSE IF a.t = "number" THEN ~NumLess(b.num, NumTimes(a.u, b.den))
    ELSE IF b.t = "number" THEN ~NumLess(NumTimes(b.u, a.den), a.num)
    ELSE a.den = b.den /\ ~NumLess(b.num, a.num)

\* a finite number >= 0
NonNegative(v) == v.t = "number" /\ ~NumLess(v, Zero)

\* C12: for current >= 0 and target > 0 the percentage calculateFIProgress
\* returns lies in [0, 100] and is no greater than the percentage returned
\* for any larger current with the same target; for every target <= 0 the
\* call throws.
C12_FIProgressClampedMonotone ==
    calc.fn = "calculateFIProgress" =>
        /\ (calc.targetValue.t = "number" /\ ~NumLess(Zero, calc.targetValue))
               => ~calc.out.ok
        /\ (NonNegative(calc.currentValue) /\ calc.targetValue.t = "number"
            /\ NumLess(Zero, calc.targetValue)) =>
               /\ calc.out.ok
               /\ AtMost(Zero, calc.out.v.percentage)
               /\ AtMost(calc.out.v.percentage, Whole(100))
               /\ \A larger \in CalcNumbers :
                     NumLess(calc.currentValue, larger) =>
                         AtMost(calc.out.v.percentage,
                                calculateFIProgress(larger, calc.targetValue)
                                    .v.percentage)

\* progress below the cap for a current that larger currents follow
C12_Witness ==
    /\ calc.fn = "calculateFIProgress"
    /\ calc.currentValue = Num(0, 500)
    /\ calc.targetValue = Whole(2)
    /\ calc.out.ok
    /\ calc.out.v.percentage = Ratio(Whole(50), Whole(2))

\* a non-empty series was handed to calculateRealMetrics
SeriesGiven ==
    /\ calc.fn = "calculateRealMetrics"
    /\ calc.historicalData.t = "array"
    /\ calc.historicalData.a # << >>

\* lastEntry.year - firstEntry.year of the series given
YearsSpan ==
    NumSub(calc.historicalData.a[Len(calc.historicalData.a)].year,
           calc.historicalData.a[1].year)

\* C13: calculateRealMetrics throws, returning no metrics, whenever the
\* first entry's annualSavings is <= 0 or lastEntry.year - firstEntry.year
\* is <= 0, as for a series of a single entry.
C13_RealMetricsNeedsSavingsAndSpan ==
    ( /\ SeriesGiven
      /\ \/ ~NumLess(Zero, calc.historicalData.a[1].annualSavings)
         \/ ~NumLess(Zero, YearsSpan) ) =>
        ~calc.out.ok

\* a single-entry series with positive savings and a positive total throws
C13_Witness ==
    /\ SeriesGiven
    /\ Len(calc.historicalData.a) = 1
    /\ NumLess(Zero, calc.historicalData.a[1].annualSavings)
    /\ calc.currentTotal = Whole(3)
    /\ ~calc.out.ok

-----------------------------------------------------------------------------
(* Claims about currency conversion (SpecCalc) *)

\* the rate table convertCurrency works with
RatesUsed ==
    IF Truthy(calc.customRates) THEN calc.customRates ELSE exchangeRates

\* convertCurrency was handed a finite amount >= 0
ConvertedNonNegative ==
    calc.fn = "convertCurrency" /\ NonNegative(calc.sgdAmount)

\* n is an integer nearest to the fraction x
IsNearestInteger(n, x) == Abs(2 * (n * x.d - x.n)) <= x.d

\* the result is amount * rate rounded to the nearest integer
ReturnsRoundedProduct ==
    /\ calc.out.ok
    /\ calc.out.v.t = "number"
    /\ calc.out.v.f = 0
    /\ IsNearestInteger(calc.out.v.u,
                        MulFrac(Frac(calc.sgdAmount),
                                Frac(Get(RatesUsed, calc.targetCurrency))))

C15_NegativeAmountFails ==
    (calc.fn = "convertCurrency" /\ IsNegative(calc.sgdAmount)) => ~calc.out.ok

\* C16 as stated: convertCurrency called with a target currency that is
\* neither SGD nor a key of the rate table fails with an error the caller
\* sees and returns no number.
C16_UnsupportedCurrencyFails ==
    ( /\ ConvertedNonNegative
      /\ calc.targetCurrency # "SGD"
      /\ ~HasKey(RatesUsed, calc.targetCurrency) ) =>
        ~calc.out.ok

\* C17: for a non-negative amount x and a currency C of SGD, USD, INR,
\* converting x to C, taking the result back to SGD with
\* getExchangeRate(C, 'SGD') and converting to C again gives the value of
\* the first conversion.
C17_ConvertThereAndBackAgain ==
    calc.fn = "convertThereAndBack" =>
        calc.first.ok /\ calc.out = calc.first

\* 0.5 SGD taken to INR, back by the inverse rate, and to INR again
C17_Witness ==
    /\ calc.fn = "convertThereAndBack"
    /\ calc.sgdAmount = Num(0, 500)
    /\ calc.targetCurrency = "INR"
    /\ calc.first = Return(Whole(34))
    /\ calc.toBase # calc.sgdAmount
    /\ calc.out = Return(Whole(34))

\* m is a rate of the table used that no other rate of it exceeds
IsMaxRate(m) ==
    /\ \E k \in DOMAIN RatesUsed.o : RatesUsed.o[k] = m
    /\ \A k \in DOMAIN RatesUsed.o : ~NumLess(m, RatesUsed.o[k])

\* C18 as stated: for every non-negative amount x, rate table and target
\* currency the value convertCurrency returns is at most the largest rate
\* of the table times x.
C18_AtMostMaxRateTimesAmount ==
    ConvertedNonNegative =>
        \A m \in {RatesUsed.o[k] : k \in DOMAIN RatesUsed.o} :
            IsMaxRate(m) =>
                ~FracLess(MulFrac(Frac(m), Frac(calc.sgdAmount)),
                          Frac(calc.out.v))

\* C18: for every non-negative amount x, rate table and target currency the
\* value convertCurrency returns exceeds neither x + 0.5 nor, for a largest
\* rate of at least 1, that rate times x plus 0.5: it is at most
\* max(1, max(rates)) * x rounded to an integer.
C18_AtMostRoundedMaxRateTimesAmount ==
    ConvertedNonNegative =>
        \A m \in {RatesUsed.o[k] : k \in DOMAIN RatesUsed.o} :
            IsMaxRate(m) =>
                LET factor == IF NumLess(m, Whole(1)) THEN Whole(1) ELSE m
                    bound == MulFrac(Frac(factor), Frac(calc.sgdAmount))
                IN  2 * calc.out.v.u * bound.d <= 2 * bound.n + bound.d

\* a conversion to INR that rounding lifts above rate * amount
C18_Witness ==
    /\ ConvertedNonNegative
    /\ calc.sgdAmount = Num(0, 500)
    /\ calc.targetCurrency = "INR"
    /\ calc.customRates = Null
    /\ calc.out = Return(Whole(34))

-----------------------------------------------------------------------------
(* Claims about the hook's saving and the dashboard (Spec) *)

\* C19: every accepted portfolio change replaces the pending debounced save
\* by a new one for the changed portfolio, so the one save that is pending
\* is for the current portfolio, and a save that fires writes the current
\* portfolio, never a superseded one.  (A reload of the page, which leaves
\* the hook loading, is neither a change of the portfolio nor a save.)
C19_SaveWritesCurrentPortfolio ==
    [][ /\ ( \/ (portfolio' # portfolio /\ ~loading')
             \/ (ret'.op \in {"updatePortfolio", "updateBucket"} /\ ret'.val
                 /\ edits' # edits) )
            => timer' = Timer(portfolio')
        /\ (timer.pending /\ ~timer'.pending /\ ~loading')
            => /\ timer.portfolio = portfolio
               /\ \E failAt \in FailPoints(2) :
                     store' = savePortfolio(store, available, portfolio,
                                            clock, failAt).store ]_vars

\* the save for an edit that superseded the save scheduled at mount has
\* fired and stored the edited portfolio
C19_Witness ==
    /\ ret.op = "saveData"
    /\ ret.val
    /\ edits = 1
    /\ ~timer.pending
    /\ Get(portfolio, "core") = Whole(MAX_VALUE)
    /\ IsSnapshot(store.PORTFOLIO)
    /\ Get(store.PORTFOLIO.v, "core") = Whole(MAX_VALUE)

\* C20 as stated: once the hook has finished loading, an error reported by
\* load, save or update does not block read access to the portfolio in
\* memory: the dashboard still renders the portfolio metrics and buckets
\* while the error is shown.
C20_ErrorKeepsDashboard ==
    (~loading /\ error # "none") => DashboardView = "Dashboard"

\* bucket values of the kinds C21 names: above the ceiling, negative, and
\* no number (NaN, a string without a digit)
RejectedValues ==
    { Num(MAX_VALUE, 1), PosInf, Whole(-1), NaN, Str(<<"a", "b", "c">>) }

\* C21 as stated: updatePortfolio called with a bucket value above
\* 10,000,000, a negative value or a non-numeric value returns false,
\* records an error message, and leaves the current portfolio as it was.
C21_BadBucketValueRejected ==
    [][\A bucket \in InputBuckets, value \in RejectedValues \cap InputValues :
          UpdateBucket(bucket, value)
          => /\ ret'.val = FALSE
             /\ error' # "none"
             /\ portfolio' = portfolio]_vars

-----------------------------------------------------------------------------
(* Claims about the bundled series and the peak (SpecCalc) *)

\* calculateRealMetrics returned metrics for a series
MetricsReturned ==
    /\ SeriesGiven
    /\ calc.out.ok

\* the first position of the series whose networth no entry exceeds
FirstPeakIndex ==
    LET data == calc.historicalData.a
    IN  CHOOSE i \in 1..Len(data) :
            /\ \A j \in 1..Len(data) : ~NumLess(data[i].networth, data[j].networth)
            /\ \A j \in 1..(i - 1) : NumLess(data[j].networth, data[i].networth)

\* C22: for every non-empty series for which calculateRealMetrics returns,
\* peakValue and peakYear are those of the entry with the greatest networth,
\* and of several such entries the first in sequence order.
C22_PeakIsFirstMaximum ==
    MetricsReturned =>
        /\ calc.out.v.peakValue = calc.historicalData.a[FirstPeakIndex].networth
        /\ calc.out.v.peakYear = calc.historicalData.a[FirstPeakIndex].year

\* metrics of a series whose greatest networth is held by the first and
\* the last entry: the first one's year is reported
C22_Witness ==
    /\ MetricsReturned
    /\ Len(calc.historicalData.a) = 3
    /\ calc.historicalData.a[1].networth = calc.historicalData.a[3].networth
    /\ FirstPeakIndex = 1
    /\ calc.out.v.peakYear = calc.historicalData.a[1].year

\* calculateRealMetrics applied to the bundled series and the total 491132
BundledCall ==
    /\ calc.fn = "calculateRealMetrics"
    /\ calc.historicalData = HISTORICAL_DATA
    /\ calc.currentTotal = Whole(491132)

\* amount grown `years` times by perTenThousand / 10000 of itself, every
\* step rounded up (a bound from above) or down (a bound from below)
RECURSIVE Compound(_, _, _, _)
Compound(amount, perTenThousand, years, up) ==
    IF years = 0 THEN amount
    ELSE LET before == Compound(amount, perTenThousand, years - 1, up)
             growth == before * perTenThousand
         IN  before + (growth \div 10000)
                    + (IF up /\ growth % 10000 # 0 THEN 1 ELSE 0)

\* the growth rate c, in percent, is at least 50 + hundredths / 100
CagrAtLeast(c, hundredths) ==
    Compound(c.startValue.u, 5000 + hundredths, c.years.u, TRUE) <= c.endValue.u

\* the growth rate c, in percent, is below 50 + hundredths / 100
CagrBelow(c, hundredths) ==
    Compound(c.startValue.u, 5000 + hundredths, c.years.u, FALSE) > c.endValue.u

\* the percentage q lies in [hundredths / 100, (hundredths + 10) / 100)
PercentRoundsFrom(q, hundredths) ==
    /\ q.t = "percent"
    /\ hundredths * q.den.u <= 10000 * q.num.u
    /\ 10000 * q.num.u < (hundredths + 10) * q.den.u

\* C23 as stated: for the bundled series and currentTotal 491132,
\* gainsPercentage is 50.1 and cagr is 55.9 to one decimal.
C23_BundledMetrics_55_9 ==
    BundledCall =>
        /\ calc.out.ok
        /\ PercentRoundsFrom(calc.out.v.gainsPercentage, 5005)
        /\ CagrAtLeast(calc.out.v.cagr, 585)
        /\ CagrBelow(calc.out.v.cagr, 595)

\* C23 amended: for the bundled series and currentTotal 491132,
\* gainsPercentage is 50.1 and cagr, ((491132/20000)^(1/7) - 1) * 100, is
\* 58.0 to one decimal.
C23_BundledMetrics_58_0 ==
    BundledCall =>
        /\ calc.out.ok
        /\ PercentRoundsFrom(calc.out.v.gainsPercentage, 5005)
        /\ CagrAtLeast(calc.out.v.cagr, 795)
        /\ CagrBelow(calc.out.v.cagr, 805)

\* the bundled call returned metrics over the seven years from savings of
\* 20000 and total savings of 327219
C23_Witness ==
    /\ BundledCall
    /\ calc.out.ok
    /\ calc.out.v.totalSaved = Whole(327219)
    /\ calc.out.v.cagr.startValue = Whole(20000)
    /\ calc.out.v.years = Whole(7)

-----------------------------------------------------------------------------
(* Claims about recovery from the error page and the derived values (Spec) *)

\* C24 as stated: reloading can always lead back to the dashboard without
\* an error: a portfolio that the edit flow accepted and the debounced save
\* persisted is loaded from the store it was written to without an error.
C24_PersistedPortfolioLoadsClean ==
    [][(timer.pending /\ ~timer'.pending /\ ret'.op = "saveData" /\ ret'.val)
          => LoadOutcome(store', available').error = "none"]_vars

\* the hook has loaded and holds a portfolio that validatePortfolio accepts
AcceptedPortfolioHeld ==
    /\ ~loading
    /\ validatePortfolio(portfolio).ok

\* C25 as stated: for every portfolio validatePortfolio accepts, all-zero
\* buckets included, the derived-value computation sets no error, and
\* metrics.currentNetworth is the sum of the four buckets.
C25_DerivedValuesComputed ==
    AcceptedPortfolioHeld =>
        /\ error # "Calculation error"
        /\ LET newTotal == calculatePortfolioTotal(portfolio).v
               metrics == calculateRealMetrics(newTotal, HISTORICAL_DATA)
           IN  /\ metrics.ok
               /\ metrics.v.currentNetworth = SumOfBuckets(portfolio)

-----------------------------------------------------------------------------
(* Claims about the FI progress shown (SpecCalc) *)

\* C26 as stated: for a fixed portfolio the Lean FI and Full FI progress
\* percentages computed for display are the same under every display
\* currency: they equal those computed with SGD selected.
C26_FIProgressSameInEveryCurrency ==
    calc.fn = "PortfolioMetrics" =>
        LET inSGD == PortfolioMetrics(displayTotal(calc.total, "SGD"))
        IN  /\ calc.out.leanFI.v.percentage = inSGD.leanFI.v.percentage
            /\ calc.out.fullFI.v.percentage = inSGD.fullFI.v.percentage

-----------------------------------------------------------------------------
(* Claims about the debounced save (SpecFair, Spec) *)

\* updatePortfolio has just accepted an edit while storage is available
EditAccepted ==
    IF available /\ ret.op \in {"updatePortfolio", "updateBucket"}
    THEN ret.val = TRUE
    ELSE FALSE

\* the primary record holds the in-memory portfolio, lastUpdated and
\* version apart
PrimaryHoldsPortfolio ==
    IF JSONparse(store.PORTFOLIO).ok
    THEN Without(JSONparse(store.PORTFOLIO).v, {"lastUpdated", "version"})
             = Without(portfolio, {"lastUpdated", "version"})
    ELSE FALSE

\* the debounced save has just fired and, unless a write of it failed,
\* left the in-memory portfolio in the primary record
DebouncedSaveDone ==
    IF ret.op = "saveData" /\ ~timer.pending
    THEN ret.val => PrimaryHoldsPortfolio
    ELSE FALSE

\* C27: if storage is available and an accepted edit is followed by no
\* further change (a later accepted edit starts the wait anew, a reload
\* ends the session), the debounced save eventually fires, and the primary
\* record then equals the in-memory portfolio apart from lastUpdated and
\* version, provided its write went through.
C27_AcceptedEditIsSaved ==
    EditAccepted ~> (DebouncedSaveDone \/ loading)

\* the save for an accepted edit of core has fired and stored the portfolio
C27_Witness ==
    /\ DebouncedSaveDone
    /\ ret.val
    /\ edits = 1
    /\ Get(portfolio, "core") = Whole(MAX_VALUE)
    /\ PrimaryHoldsPortfolio

-----------------------------------------------------------------------------
(* Claims about failed imports and loaded values (SpecStorage) *)

\* C29 as stated: whenever importData returns false (unparseable document,
\* non-object portfolio, or a storage write that fails part-way), the
\* portfolio, backup and settings keys hold the values they held before
\* the call.
C29_FailedImportChangesNothing ==
    [][\A doc \in ImportDocs, failAt \in FailPoints(3) :
          (ImportData(doc, failAt) /\ ~ret'.val) => store' = store]_vars

\* C30 as stated: every non-null value returned by loadPortfolio contains
\* the four bucket fields core, growth, crypto and hedge, whether read from
\* the primary key or restored from the backup key, after any sequence of
\* savePortfolio and importData calls.
C30_LoadedValueHasBuckets ==
    (ret.op = "loadPortfolio" /\ ret.loaded # Null) =>
        /\ ret.loaded.t = "object"
        /\ \A b \in Buckets : HasKey(ret.loaded, b)

====
